---------------------------- MODULE Spec2Model ----------------------------
(***************************************************************************)
(* A model of the Google OAuth 2.0 PKCE subsystem of Pedaru                *)
(* (src-tauri/src/oauth.rs): the google_auth row of the SQLite database,   *)
(* the process-wide OAUTH_FLOW_STATE slot, the start_auth_flow command,    *)
(* the callback listener thread it spawns, the code exchange, and the     *)
(* token lifecycle (refresh_access_token, get_valid_access_token).         *)
(*                                                                         *)
(* The specifications share the variables and the actions.  Spec is the   *)
(* authorization flow: overlapping start_auth_flow calls, each in three    *)
(* steps (slot write, thread spawn, return), their listener threads and    *)
(* one request of each kind the listener tells apart; SpecListener has     *)
(* every spelling of a request.                                            *)
(* SpecLifecycle is the token lifecycle: token responses with and without *)
(* each field, the clock, and get_valid_access_token /                     *)
(* refresh_access_token racing with logout and with the exchange of a      *)
(* flow.  SpecListener is one listener thread with the time its            *)
(* recv_timeout calls wait.  SpecDurability is the stored token set under  *)
(* overlapping flows, listener timeouts, the clock and failing refresh     *)
(* commands.  SpecVerifier is generate_code_verifier on a family of        *)
(* random draws.                                                           *)
(* SpecDownloads is the registry of active downloads of bookshelf.rs       *)
(* (ACTIVE_DOWNLOADS): downloads registering and unregistering file       *)
(* ids, and cancel_download.                                               *)
(*                                                                         *)
(* Conventions.  An Option<T> is a sequence: None is << >> and Some(x) is  *)
(* <<x>>.  The random strings of generate_code_verifier and generate_state *)
(* are fresh nonces: the call that begins the i-th flow draws verifier i   *)
(* and state i (256 and 128 random bits in the code, so two calls never    *)
(* draw the same string).  A decoded `state` string is a natural number:   *)
(* 0 is the empty string, i in Flows is the state string of flow i, and    *)
(* Bogus is a string no flow generated.                                    *)
(***************************************************************************)
EXTENDS Integers, Sequences, FiniteSets, TLC

\* ------------------------------------------------------------------ bounds
MaxFlows == 2       \* start_auth_flow calls that get past load_credentials
MaxTime == 1        \* the clock runs from 0 to MaxTime seconds
MaxStray == 1       \* requests off the callback path one listener receives
MaxLifecycleFlows == 1  \* flows begun in the token lifecycle specification
MaxStride == 1      \* the byte sequences drawn are seed, seed + stride, ...
MaxDownloads == 3   \* downloads (register_download calls) of a run

\* -------------------------------------------------------- program constants
REFRESH_BUFFER == 300
RECV_TIMEOUT == 300     \* Duration::from_secs(300) of run_callback_server
VERIFIER_BYTES == 32    \* (0..32) of generate_code_verifier

None == << >>
Some(x) == <<x>>
Unwrap(o) == o[1]

Flows == 1..MaxFlows
Downloads == 1..MaxDownloads
FileIds == {"f1", "f2"}
Bogus == MaxFlows + 1

CredValues == {"clientA", "clientB"}
\* TokenResponse.access_token is any JSON string, the empty one included.
AccessTokens == {"", "AT1", "AT2"}
RefreshTokens == {"RT1", "RT2"}
ExpiresInValues == {REFRESH_BUFFER + 1}

VARIABLES
    creds,        \* google_auth row: None (no row) or Some(client id/secret)
    access_token, \* google_auth.access_token  (NULL is None)
    refresh_token,\* google_auth.refresh_token (NULL is None)
    token_expiry, \* google_auth.token_expiry  (NULL is None)
    flow_state,   \* OAUTH_FLOW_STATE
    now,          \* SystemTime::now() in seconds
    port,         \* the listener bound to 127.0.0.1:8585, 0 when free
    served,       \* requests the bound listener has received so far
    waited,       \* seconds the recv_timeout call in progress has waited
    bound_for,    \* seconds the waiting listener has held the port
    nflows,       \* flows begun (nonces drawn) so far
    spc,          \* spc[i]: where the start_auth_flow call of flow i is
    lpc,          \* lpc[i]: where the listener thread of flow i is
    lloc,         \* lloc[i]: the locals of the listener thread of flow i
    start_ret,    \* what the last finished start_auth_flow call returned
    gpc,          \* where the thread calling the token lifecycle commands is
    gloc,         \* its locals
    latest,       \* history: the flow whose start_auth_flow wrote the slot last
    consumed,     \* history: states whose exchange_code_for_tokens returned Ok
    xsent,        \* history: xsent[s] token requests were sent by exchanges
                  \* whose callback matched state s (0: the state None)
    since_start,  \* history: seconds since the last start_auth_flow call
                  \* wrote the slot, up to RECV_TIMEOUT
    rng,          \* the bytes thread_rng yields to generate_code_verifier
    code_verifier,\* the string generate_code_verifier returned, as a
                  \* sequence of characters; << >> before the call
    registry,     \* ACTIVE_DOWNLOADS: registry[id] is None or Some(flag handle)
    flag,         \* flag[h]: the value of the h-th AtomicBool allocated
    dpc,          \* dpc[d]: where download d is
    dl_id,        \* dl_id[d]: the file id download d registered
    dl_flag,      \* dl_flag[d]: the handle register_download returned to d
    cpc,          \* where the thread calling cancel_download is
    cancel_call,  \* the file id and the return value of its cancel_download
    last_op       \* history: the last of register_download and
                  \* unregister_download called for each file id

vars == <<creds, access_token, refresh_token, token_expiry, flow_state, now,
          port, served, waited, bound_for, nflows, spc, lpc, lloc, start_ret,
          gpc, gloc, latest, consumed, xsent, since_start, rng, code_verifier,
          registry, flag, dpc, dl_id, dl_flag, cpc, cancel_call, last_op>>

timers == <<waited, bound_for>>
flowvars == <<flow_state, port, served, timers, nflows, spc, lpc, lloc, start_ret>>
gvars == <<gpc, gloc>>
histvars == <<latest, consumed, xsent>>

dbvars == <<creds, access_token, refresh_token, token_expiry>>
pkce == <<rng, code_verifier>>
dlvars == <<registry, flag, dpc, dl_id, dl_flag, cpc, cancel_call, last_op>>


\* ------------------------------------------------------- callback requests
\* A request URL is a path and, after the first '?', a query: a sequence of
\* '&'-separated pieces <<key, value>>; the value is None for a piece that
\* holds no '='.  A raw value [enc, v] is spelled plainly ("plain"), with
\* percent escapes ("pct"), or with escapes that do not decode to UTF-8
\* ("bad").
CallbackPaths == {"/callback", "/callback/extra"}
OtherPaths == {"/favicon.ico"}

Raw(enc, v) == [enc |-> enc, v |-> v]

\* urlencoding::decode(s).unwrap_or_default(): the decoded string, or the
\* empty string (0) when the escapes are not valid UTF-8.
Decode(raw) == IF raw.enc = "bad" THEN 0 ELSE raw.v

\* url.starts_with("/callback")
StartsWithCallback(path) == path \in CallbackPaths

\* query.split('&').filter_map(splitn(2, '=') with both parts).collect() into
\* a HashMap: pieces without '=' are dropped and the last piece of a key wins.
ParseQuery(q) ==
    LET valued == {n \in 1..Len(q) : q[n][2] # None}
        keys == {q[n][1] : n \in valued}
        last(k) == CHOOSE n \in valued :
                      /\ q[n][1] = k
                      /\ \A m \in valued : q[m][1] = k => m <= n
    IN  [k \in keys |-> Unwrap(q[last(k)][2])]

\* params.get(k)
Get(params, k) == IF k \in DOMAIN params THEN Some(params[k]) ELSE None

CodePieces == {<< >>, <<<<"code", Some(Raw("plain", 1))>>>>, <<<<"code", None>>>>}
ErrorPieces == {<< >>, <<<<"error", Some(Raw("plain", 1))>>>>, <<<<"error", None>>>>}
StatePieces ==
    {<< >>, <<<<"state", None>>>>, <<<<"state", Some(Raw("bad", 1))>>>>}
    \cup {<<<<"state", Some(Raw(e, v))>>>> : e \in {"plain", "pct"}, v \in 1..Bogus}
    \cup {<<<<"state", Some(Raw("plain", v))>>, <<"state", Some(Raw("plain", w))>>>> :
             v \in {1, Bogus}, w \in {1, Bogus}}

Queries == {c \o s \o e : c \in CodePieces, s \in StatePieces, e \in ErrorPieces}

Requests ==
    {[path |-> p, query |-> None] : p \in CallbackPaths \cup OtherPaths}
    \cup {[path |-> p, query |-> Some(q)] : p \in CallbackPaths, q \in Queries}

\* ------------------------------------------------ token endpoint responses
\* What the POST to GOOGLE_TOKEN_URL comes back as: the send fails, the status
\* is not a success, the body is not a TokenResponse, or a TokenResponse.
\* "save_error" is a TokenResponse followed by a failing database write.
Failures == {"network_error", "http_error", "bad_json", "save_error"}
Resp(kind, a, r, e) ==
    [kind |-> kind, access_token |-> a, refresh_token |-> r, expires_in |-> e]
NoResp == Resp("none", "", None, None)
Responses ==
    {Resp(k, "", None, None) : k \in Failures}
    \cup {Resp("ok", a, r, e) :
            a \in AccessTokens,
            r \in {None} \cup {Some(x) : x \in RefreshTokens},
            e \in {None} \cup {Some(x) : x \in ExpiresInValues}}

\* ------------------------------------------------------------- the database
\* Mutant of Coalesce: the new value is stored even when it is NULL.
CoalesceOverwrites(new, old) == new

\* save_tokens, "refresh_token = COALESCE(?2, refresh_token)"
Coalesce(new, old) == IF new # None THEN new ELSE old

\* Mutant of TokenExpiry: like the refresh token, the expiry is kept when the
\* response has none.
TokenExpiryPreserved(expires_in, t) ==
    IF expires_in # None THEN Some(t + Unwrap(expires_in)) ELSE token_expiry

\* Mutant of TokenExpiry: the lifetime is stored as if it were the expiry.
TokenExpiryRelative(expires_in, t) == expires_in

\* save_tokens, "expires_in.map(|e| now + e)"
TokenExpiry(expires_in, t) ==
    IF expires_in # None THEN Some(t + Unwrap(expires_in)) ELSE None

\* save_tokens from its UPDATE on, t being the time it read before:
\* UPDATE google_auth SET ... WHERE id = 1 (no row, no change)
save_tokens(a, r, e, t) ==
    /\ access_token' = IF creds # None THEN Some(a) ELSE access_token
    /\ refresh_token' = IF creds # None THEN Coalesce(r, refresh_token)
                                         ELSE refresh_token
    /\ token_expiry' = IF creds # None THEN TokenExpiry(e, t)
                                        ELSE token_expiry
    /\ UNCHANGED creds

\* save_credentials: INSERT ... ON CONFLICT(id) DO UPDATE client_id, secret
save_credentials(c) ==
    /\ creds' = Some(c)
    /\ UNCHANGED <<access_token, refresh_token, token_expiry>>

\* Mutant of clear_tokens: the row is deleted, credentials included.
clear_tokens_deleting_row ==
    /\ access_token' = None
    /\ refresh_token' = None
    /\ token_expiry' = None
    /\ creds' = None

\* clear_tokens: UPDATE google_auth SET the three token columns to NULL
clear_tokens ==
    /\ access_token' = None
    /\ refresh_token' = None
    /\ token_expiry' = None
    /\ UNCHANGED creds


\* ------------------------------------------------------------ initial state
\* `sent` counts the token requests the invocation has sent; `status` is the
\* AuthStatus a get_auth_status call returned; the `ret` of a listener is
\* what its exchange_code_for_tokens call returned ("Ok" or the error);
\* `clock` is the time save_tokens read before its UPDATE (0 outside
\* save_tokens); `row` is the row load_auth_state returned to
\* get_valid_access_token (None outside it).
NoLocals == [expected |-> None, received |-> None, err |-> FALSE,
             verifier |-> None, page |-> "none", resp |-> NoResp, sent |-> 0,
             ret |-> "none", clock |-> 0]
NoCall == [direct |-> FALSE, resp |-> NoResp, ret |-> None, status |-> None,
           sent |-> 0, row |-> None, clock |-> 0]

\* A fresh process on a fresh database: no google_auth row, OAUTH_FLOW_STATE
\* is None, no listener thread exists.
InitProgram ==
    /\ creds = None
    /\ access_token = None
    /\ refresh_token = None
    /\ token_expiry = None
    /\ flow_state = None
    /\ now = 0
    /\ port = 0
    /\ served = 0
    /\ waited = 0
    /\ bound_for = 0
    /\ nflows = 0
    /\ spc = [i \in Flows |-> "idle"]
    /\ lpc = [i \in Flows |-> "unspawned"]
    /\ lloc = [i \in Flows |-> NoLocals]
    /\ start_ret = "none"
    /\ gpc = "idle"
    /\ gloc = NoCall
    /\ latest = 0
    /\ consumed = {}
    /\ xsent = [s \in 0..MaxFlows |-> 0]
    /\ since_start = 0

\* No call of a cancel_download in progress.
NoCancel == [id |-> "", ret |-> FALSE]

\* ACTIVE_DOWNLOADS.get_or_init(|| Mutex::new(HashMap::new())): the map is
\* empty, no flag is allocated, no download has begun.
InitDownloads ==
    /\ registry = [id \in FileIds |-> None]
    /\ flag = << >>
    /\ dpc = [d \in Downloads |-> "idle"]
    /\ dl_id = [d \in Downloads |-> ""]
    /\ dl_flag = [d \in Downloads |-> 0]
    /\ cpc = "idle"
    /\ cancel_call = NoCancel
    /\ last_op = [id \in FileIds |-> "none"]

Init ==
    /\ InitProgram
    /\ InitDownloads
    /\ rng = << >>
    /\ code_verifier = << >>

\* ------------------------------------------------------------ user commands
SaveCredentials(c) ==
    /\ save_credentials(c)
    /\ UNCHANGED <<dlvars, pkce, since_start, now, flowvars, gvars, histvars>>

ClearTokens ==
    /\ clear_tokens
    /\ UNCHANGED <<dlvars, pkce, since_start, now, flowvars, gvars, histvars>>

Tick ==
    /\ now < MaxTime
    /\ now' = now + 1
    /\ UNCHANGED <<dlvars, pkce, since_start, dbvars, flowvars, gvars, histvars>>

\* ---------------------------------------------------------- start_auth_flow
\* Mutant of CredentialsLoaded: the missing row is not noticed.
CredentialsLoadedAlways(c) == TRUE

\* load_credentials(app)?.ok_or(NotConfigured)
CredentialsLoaded(c) == c # None

\* start_auth_flow with no google_auth row: returns Err(NotConfigured) from
\* its first statement.
StartNotConfigured ==
    /\ ~CredentialsLoaded(creds)
    /\ start_ret' = "NotConfigured"
    /\ UNCHANGED <<dlvars, pkce, since_start, dbvars, flow_state, now, port, served,
                   timers, nflows, spc,
                   lpc, lloc, gvars, histvars>>

\* start_auth_flow up to "let state = generate_state()": the credentials are
\* loaded and the nonces of a new flow are drawn.
StartGenerate(limit) ==
    /\ CredentialsLoaded(creds)
    /\ nflows < limit
    /\ nflows' = nflows + 1
    /\ spc' = [spc EXCEPT ![nflows + 1] = "generated"]
    /\ UNCHANGED <<dlvars, pkce, since_start, dbvars, flow_state, now, port, served,
                   timers, lpc, lloc,
                   start_ret, gvars, histvars>>

\* Mutant of NewFlowState: with a FlowState in the slot only its verifier is
\* replaced.
NewFlowStateTorn(i) ==
    [code_verifier |-> i,
     state |-> IF flow_state # None THEN Unwrap(flow_state).state ELSE i]

\* The OAuthFlowState start_auth_flow builds from the nonces of flow i.
NewFlowState(i) == [code_verifier |-> i, state |-> i]

\* What the start_auth_flow call of flow i has returned to its caller: the
\* call returns Ok(auth_url) once the thread is spawned and the URL is built.
StartReturn(i) == IF spc[i] = "returned" THEN "url" ELSE "none"

\* start_auth_flow, the block that holds the OAUTH_FLOW_STATE lock: the slot
\* is overwritten and the lock is released ("stored").
StartStore(i) ==
    /\ spc[i] = "generated"
    /\ flow_state' = Some(NewFlowState(i))
    /\ spc' = [spc EXCEPT ![i] = "stored"]
    /\ latest' = i
    /\ since_start' = 0
    /\ UNCHANGED <<dlvars, pkce, dbvars, now, port, served, timers, nflows, lpc,
                   lloc, start_ret, gvars, consumed, xsent>>

\* start_auth_flow from the OAUTH_CALLBACK_CODE lock to thread::spawn: the
\* callback code, which nothing else writes or reads, is set to None again
\* and the listener thread of the flow is spawned.
StartSpawn(i) ==
    /\ spc[i] = "stored"
    /\ spc' = [spc EXCEPT ![i] = "spawned"]
    /\ lpc' = [lpc EXCEPT ![i] = "spawned"]
    /\ UNCHANGED <<dlvars, pkce, since_start, dbvars, flow_state, now, port,
                   served, timers, nflows, lloc, start_ret, gvars, histvars>>

\* start_auth_flow from "let redirect_uri" on: the authorization URL is
\* built and returned.
StartFinish(i) ==
    /\ spc[i] = "spawned"
    /\ spc' = [spc EXCEPT ![i] = "returned"]
    /\ start_ret' = "url"
    /\ UNCHANGED <<dlvars, pkce, since_start, dbvars, flow_state, now, port,
                   served, timers, nflows, lpc, lloc, gvars, histvars>>

\* --------------------------------------------------------- run_callback_server
\* Server::http("127.0.0.1:8585"): the bind fails while another listener of
\* this process holds the port, and the thread then returns
\* CallbackServerFailed to the closure that only prints it ("failed").
Bind(i) ==
    /\ lpc[i] = "spawned"
    /\ IF port = 0
       THEN /\ port' = i
            /\ lpc' = [lpc EXCEPT ![i] = "waiting"]
       ELSE /\ port' = port
            /\ lpc' = [lpc EXCEPT ![i] = "failed"]
    /\ UNCHANGED <<dlvars, pkce, since_start, dbvars, flow_state, now, served,
                   timers, nflows, spc, lloc,
                   start_ret, gvars, histvars>>

\* d seconds pass while the listener is blocked in recv_timeout: the call
\* waits at most RECV_TIMEOUT seconds.
Wait(i, d) ==
    /\ lpc[i] = "waiting"
    /\ waited + d <= RECV_TIMEOUT
    /\ waited' = waited + d
    /\ bound_for' = bound_for + d
    /\ since_start' = IF since_start + d < RECV_TIMEOUT
                      THEN since_start + d ELSE RECV_TIMEOUT
    /\ UNCHANGED <<dlvars, pkce, dbvars, flow_state, now, port, served, nflows, spc, lpc,
                   lloc, start_ret, gvars, histvars>>

\* The recv_timeout call in progress has waited RECV_TIMEOUT seconds.
TimedOut(w) == w >= RECV_TIMEOUT

\* Mutant of Timeout: the listener that gives up expires the FlowState.
TimeoutExpiringFlow(i) ==
    /\ lpc[i] = "waiting"
    /\ TimedOut(waited)
    /\ lpc' = [lpc EXCEPT ![i] = "timed_out"]
    /\ flow_state' = None
    /\ port' = 0
    /\ served' = 0
    /\ waited' = 0
    /\ bound_for' = 0
    /\ UNCHANGED <<dlvars, pkce, since_start, dbvars, now, nflows, spc,
                   lloc, start_ret,
                   gvars, histvars>>

\* recv_timeout returns Ok(None): the while-let loop ends, the server is
\* dropped and the thread is over ("timed_out").
Timeout(i) ==
    /\ lpc[i] = "waiting"
    /\ TimedOut(waited)
    /\ lpc' = [lpc EXCEPT ![i] = "timed_out"]
    /\ port' = 0
    /\ served' = 0
    /\ waited' = 0
    /\ bound_for' = 0
    /\ UNCHANGED <<dlvars, pkce, since_start, dbvars, flow_state, now, nflows, spc,
                   lloc, start_ret,
                   gvars, histvars>>

\* A request whose URL does not start with "/callback": the loop body does
\* nothing and the loop calls recv_timeout again, with the full timeout.
RecvStray(i, req) ==
    /\ lpc[i] = "waiting"
    /\ ~TimedOut(waited)
    /\ ~StartsWithCallback(req.path)
    /\ served < MaxStray
    /\ served' = served + 1
    /\ waited' = 0
    /\ UNCHANGED <<dlvars, pkce, since_start, dbvars, flow_state, now, port,
                   bound_for, nflows, spc, lpc, lloc,
                   start_ret, gvars, histvars>>

\* Mutant of StateMatches: only the presence of the two states is compared.
StateMatchesAnyState(expected, received) == (expected = None) <=> (received = None)

\* "if expected_state == received_state": two Option<String> compared.
StateMatches(expected, received) == expected = received

\* flow_state.as_ref().map(|s| s.state.clone())
ExpectedState(fs) == IF fs # None THEN Some(Unwrap(fs).state) ELSE None

\* params.get("state").map(|s| decode(s).unwrap_or_default())
ReceivedState(params) ==
    IF Get(params, "state") # None
    THEN Some(Decode(Unwrap(Get(params, "state")))) ELSE None

\* What the loop body decides for a request on the callback path, from the
\* request and the OAUTH_FLOW_STATE read under the lock: "exchange" (call
\* exchange_code_for_tokens), or the page it answers with at once.
Decide(req, fs) ==
    IF req.query = None THEN "no_page"
    ELSE LET params == ParseQuery(Unwrap(req.query)) IN
         IF Get(params, "code") # None
         THEN IF StateMatches(ExpectedState(fs), ReceivedState(params))
              THEN "exchange" ELSE "state_failed_page"
         ELSE IF Get(params, "error") # None THEN "error_page"
         ELSE "no_page"

\* The received_state of a request that has a query.
Received(req) == ReceivedState(ParseQuery(Unwrap(req.query)))

HasError(req) ==
    /\ req.query # None
    /\ Get(ParseQuery(Unwrap(req.query)), "error") # None

HasCode(req) ==
    /\ req.query # None
    /\ Get(ParseQuery(Unwrap(req.query)), "code") # None

\* The locals of the loop body once the request is parsed: the two states
\* are computed only in the branch of a `code` parameter.
Parsed(req, fs) ==
    [NoLocals EXCEPT !.expected = IF HasCode(req) THEN ExpectedState(fs) ELSE None,
                     !.received = IF HasCode(req) THEN Received(req) ELSE None,
                     !.err = HasError(req)]

\* A request on the callback path is received and handled up to the call of
\* exchange_code_for_tokens or up to the response.
HandleCallback(i, req) ==
    /\ lpc[i] = "waiting"
    /\ ~TimedOut(waited)
    /\ StartsWithCallback(req.path)
    /\ served' = served + 1
    /\ waited' = 0
    /\ bound_for' = 0
    /\ LET d == Decide(req, flow_state) IN
       IF d = "exchange"
       THEN /\ lpc' = [lpc EXCEPT ![i] = "exchange"]
            /\ lloc' = [lloc EXCEPT ![i] = Parsed(req, flow_state)]
       ELSE /\ lpc' = [lpc EXCEPT ![i] = "responded"]
            /\ lloc' = [lloc EXCEPT ![i] =
                          [Parsed(req, flow_state) EXCEPT !.page = d]]
    /\ UNCHANGED <<dlvars, pkce, since_start, dbvars, flow_state, now, port, nflows,
                   spc, start_ret,
                   gvars, histvars>>

\* ----------------------------------------------------- exchange_code_for_tokens
\* flow_state.as_ref().map(|s| s.code_verifier.clone())
FlowVerifier(fs) == IF fs # None THEN Some(Unwrap(fs).code_verifier) ELSE None

\* The index of an Option<state> in the history counters.
StateKey(o) == IF o # None THEN Unwrap(o) ELSE 0

\* The first statements of exchange_code_for_tokens: the error of the `?`
\* that returns, or "send" when the request is built.
ExchangePrecheck(c, fs) ==
    IF ~CredentialsLoaded(c) THEN "NotConfigured"
    ELSE IF FlowVerifier(fs) = None THEN "AuthorizationFailed"
    ELSE "send"

\* exchange_code_for_tokens up to ".send()": the credentials are loaded, the
\* verifier is read under the lock and the token request leaves; without
\* credentials (NotConfigured) or a flow state (AuthorizationFailed) it
\* returns early and the listener answers with the failure page.
ExchangeSend(i) ==
    /\ lpc[i] = "exchange"
    /\ IF ExchangePrecheck(creds, flow_state) = "send"
       THEN /\ lpc' = [lpc EXCEPT ![i] = "awaiting"]
            /\ lloc' = [lloc EXCEPT ![i].verifier = FlowVerifier(flow_state),
                                    ![i].sent = @ + 1]
            /\ xsent' = [xsent EXCEPT ![StateKey(lloc[i].expected)] = @ + 1]
       ELSE /\ lpc' = [lpc EXCEPT ![i] = "responded"]
            /\ lloc' = [lloc EXCEPT ![i].page = "failed_page",
                                    ![i].ret = ExchangePrecheck(creds, flow_state)]
            /\ xsent' = xsent
    /\ UNCHANGED <<dlvars, pkce, since_start, dbvars, flow_state, now, port, served,
                   timers, nflows, spc,
                   start_ret, gvars, latest, consumed>>

\* Mutant of ExchangeError: the errors of the status and of the body are
\* swapped.
ExchangeErrorSwapped(kind) ==
    CASE kind = "network_error" -> "HttpRequestFailed"
      [] kind = "http_error" -> "InvalidResponse"
      [] kind = "bad_json" -> "TokenExchangeFailed"
      [] OTHER -> "TokenExchangeFailed"

\* The error exchange_code_for_tokens returns for a failed request: of
\* .send(), of the status, of .json(), and of save_tokens.
ExchangeError(kind) ==
    CASE kind = "network_error" -> "HttpRequestFailed"
      [] kind = "http_error" -> "TokenExchangeFailed"
      [] kind = "bad_json" -> "InvalidResponse"
      [] OTHER -> "TokenExchangeFailed"

\* Mutant of ExchangeResponse: the flow state is cleared on the failure paths
\* too.
ExchangeResponseClearing(i, resp) ==
    /\ lpc[i] = "awaiting"
    /\ IF resp.kind = "ok"
       THEN /\ lpc' = [lpc EXCEPT ![i] = "saving"]
            /\ lloc' = [lloc EXCEPT ![i].resp = resp, ![i].clock = now]
            /\ flow_state' = flow_state
       ELSE /\ lpc' = [lpc EXCEPT ![i] = "responded"]
            /\ lloc' = [lloc EXCEPT ![i].page = "failed_page", ![i].resp = resp,
                                    ![i].ret = ExchangeError(resp.kind)]
            /\ flow_state' = None
    /\ UNCHANGED <<dlvars, pkce, since_start, dbvars, now, port, served, timers,
                   nflows, spc, start_ret, gvars, histvars>>

\* The token endpoint answers.  A failure returns Err and leaves the flow
\* state; with a TokenResponse the listener enters save_tokens and reads the
\* clock ("let now = SystemTime::now()").
ExchangeResponse(i, resp) ==
    /\ lpc[i] = "awaiting"
    /\ IF resp.kind = "ok"
       THEN /\ lpc' = [lpc EXCEPT ![i] = "saving"]
            /\ lloc' = [lloc EXCEPT ![i].resp = resp, ![i].clock = now]
       ELSE /\ lpc' = [lpc EXCEPT ![i] = "responded"]
            /\ lloc' = [lloc EXCEPT ![i].page = "failed_page", ![i].resp = resp,
                                    ![i].ret = ExchangeError(resp.kind)]
    /\ UNCHANGED <<dlvars, pkce, since_start, dbvars, flow_state, now, port,
                   served, timers, nflows, spc, start_ret, gvars, histvars>>

\* save_tokens of the exchange, "conn.execute(UPDATE ...)": the row is
\* written with the expiry computed from the clock value read before.
ExchangeSave(i) ==
    /\ lpc[i] = "saving"
    /\ save_tokens(lloc[i].resp.access_token, lloc[i].resp.refresh_token,
                   lloc[i].resp.expires_in, lloc[i].clock)
    /\ lpc' = [lpc EXCEPT ![i] = "saved"]
    /\ lloc' = [lloc EXCEPT ![i].clock = 0]
    /\ UNCHANGED <<dlvars, pkce, since_start, flow_state, now, port, served,
                   timers, nflows, spc, start_ret, gvars, histvars>>

\* Mutant of ClearedFlowState: the slot is left as it is.
ClearedFlowStateKept(fs) == fs

\* What "*flow_state = None" at the end of exchange_code_for_tokens leaves in
\* the slot.
ClearedFlowState(fs) == None

\* exchange_code_for_tokens after save_tokens: the flow state is cleared, Ok
\* is returned and the listener answers with the success page.
ExchangeClear(i) ==
    /\ lpc[i] = "saved"
    /\ flow_state' = ClearedFlowState(flow_state)
    /\ lpc' = [lpc EXCEPT ![i] = "responded"]
    /\ lloc' = [lloc EXCEPT ![i].page = "success_page", ![i].ret = "Ok"]
    /\ consumed' = consumed \cup {StateKey(lloc[i].expected)}
    /\ UNCHANGED <<dlvars, pkce, since_start, dbvars, now, port, served, timers,
                   nflows, spc, start_ret,
                   gvars, latest, xsent>>

\* "break", then the server is dropped at the end of run_callback_server.
Exit(i) ==
    /\ lpc[i] = "responded"
    /\ lpc' = [lpc EXCEPT ![i] = "exited"]
    /\ lloc' = [lloc EXCEPT ![i] = NoLocals]
    /\ port' = 0
    /\ served' = 0
    /\ UNCHANGED <<dlvars, pkce, since_start, dbvars, flow_state, now, timers,
                   nflows, spc, start_ret,
                   gvars, histvars>>

\* ------------------------------------------------------- token lifecycle
\* Mutant of NeedsRefresh: a row without an expiry counts as expired.
NeedsRefreshWhenUnknown(expiry, t) ==
    expiry = None \/ t >= Unwrap(expiry) - REFRESH_BUFFER

\* Mutant of NeedsRefresh: the threshold itself does not refresh.
NeedsRefreshStrict(expiry, t) == expiry # None /\ t > Unwrap(expiry) - REFRESH_BUFFER

\* get_valid_access_token, "if let Some(expiry) = auth_state.token_expiry
\* && now >= expiry - 300"
NeedsRefresh(expiry, t) == expiry # None /\ t >= Unwrap(expiry) - REFRESH_BUFFER

Ok(v) == [tag |-> "Ok", v |-> v]
Err(e) == [tag |-> "Err", v |-> e]

\* The columns of the row get_valid_access_token goes on with.
LoadedRow(a, x) == [access_token |-> a, token_expiry |-> x]

\* get_valid_access_token up to the reading of the clock: load_auth_state,
\* NotConfigured without a row, NotAuthenticated without an access token.
GetValid ==
    /\ gpc = "idle"
    /\ IF ~CredentialsLoaded(creds)
       THEN /\ gpc' = "returned"
            /\ gloc' = [NoCall EXCEPT !.ret = Some(Err("NotConfigured"))]
       ELSE IF access_token = None
       THEN /\ gpc' = "returned"
            /\ gloc' = [NoCall EXCEPT !.ret = Some(Err("NotAuthenticated"))]
       ELSE /\ gpc' = "loaded"
            /\ gloc' = [NoCall EXCEPT
                          !.row = Some(LoadedRow(Unwrap(access_token),
                                                 token_expiry))]
    /\ UNCHANGED <<dlvars, pkce, since_start, dbvars, now, flowvars, histvars>>

\* get_valid_access_token from the reading of the clock on: the expiry of
\* the row loaded before is compared with the time read now, and the call
\* goes on to refresh_access_token or returns the access token it loaded.
GetValidDecide ==
    /\ gpc = "loaded"
    /\ IF NeedsRefresh(Unwrap(gloc.row).token_expiry, now)
       THEN /\ gpc' = "refresh_call"
            /\ gloc' = NoCall
       ELSE /\ gpc' = "returned"
            /\ gloc' = [NoCall EXCEPT
                          !.ret = Some(Ok(Unwrap(gloc.row).access_token))]
    /\ UNCHANGED <<dlvars, pkce, since_start, dbvars, now, flowvars, histvars>>

\* Mutant of RefreshSend: without a refresh token the stored access token is
\* handed back.
RefreshSendFallback ==
    /\ gpc \in {"idle", "refresh_call"}
    /\ IF ~CredentialsLoaded(creds)
       THEN /\ gpc' = "returned"
            /\ gloc' = [NoCall EXCEPT !.direct = (gpc = "idle"),
                                      !.ret = Some(Err("NotConfigured"))]
       ELSE IF refresh_token = None
       THEN /\ gpc' = "returned"
            /\ gloc' = [NoCall EXCEPT
                          !.direct = (gpc = "idle"),
                          !.ret = IF access_token # None
                                  THEN Some(Ok(Unwrap(access_token)))
                                  ELSE Some(Err("TokenRefreshFailed"))]
       ELSE /\ gpc' = "awaiting"
            /\ gloc' = [NoCall EXCEPT !.direct = (gpc = "idle"),
                                      !.sent = gloc.sent + 1]
    /\ UNCHANGED <<dlvars, pkce, since_start, dbvars, now, flowvars, histvars>>

\* refresh_access_token up to ".send()", called by get_valid_access_token
\* ("refresh_call") or as a command of its own ("idle"): a load_auth_state of
\* its own, then the token request leaves with the stored refresh token.
RefreshSend ==
    /\ gpc \in {"idle", "refresh_call"}
    /\ IF ~CredentialsLoaded(creds)
       THEN /\ gpc' = "returned"
            /\ gloc' = [NoCall EXCEPT !.direct = (gpc = "idle"),
                                      !.ret = Some(Err("NotConfigured"))]
       ELSE IF refresh_token = None
       THEN /\ gpc' = "returned"
            /\ gloc' = [NoCall EXCEPT !.direct = (gpc = "idle"),
                                      !.ret = Some(Err("TokenRefreshFailed"))]
       ELSE /\ gpc' = "awaiting"
            /\ gloc' = [NoCall EXCEPT !.direct = (gpc = "idle"),
                                      !.sent = gloc.sent + 1]
    /\ UNCHANGED <<dlvars, pkce, since_start, dbvars, now, flowvars, histvars>>

\* The error refresh_access_token returns for a failed request.
RefreshError(kind) ==
    CASE kind = "network_error" -> "HttpRequestFailed"
      [] kind = "http_error" -> "TokenRefreshFailed"
      [] kind = "bad_json" -> "InvalidResponse"
      [] OTHER -> "TokenExchangeFailed"

\* Mutant of RefreshReturn: the access token stored before the refresh is
\* returned.
RefreshReturnStale(resp) ==
    IF access_token # None THEN Ok(Unwrap(access_token)) ELSE Ok(resp.access_token)

\* refresh_access_token, "Ok(token_response.access_token)"
RefreshReturn(resp) == Ok(resp.access_token)

\* Mutant of RefreshResponse: a refresh the token endpoint rejects logs the
\* user out.
RefreshResponseClearing(resp) ==
    /\ gpc = "awaiting"
    /\ IF resp.kind = "ok"
       THEN /\ gpc' = "saving"
            /\ gloc' = [gloc EXCEPT !.resp = resp, !.clock = now]
            /\ UNCHANGED dbvars
       ELSE /\ gpc' = "returned"
            /\ IF resp.kind = "http_error" THEN clear_tokens ELSE UNCHANGED dbvars
            /\ gloc' = [gloc EXCEPT !.resp = resp,
                                    !.ret = Some(Err(RefreshError(resp.kind)))]
    /\ UNCHANGED <<dlvars, pkce, since_start, now, flowvars, histvars>>

\* Mutant of RefreshResponse: a request that failed in transit is sent once
\* more before the error is returned.
RefreshResponseRetrying(resp) ==
    /\ gpc = "awaiting"
    /\ IF resp.kind = "ok"
       THEN /\ gpc' = "saving"
            /\ gloc' = [gloc EXCEPT !.resp = resp, !.clock = now]
       ELSE IF resp.kind = "network_error" /\ gloc.sent < 2
       THEN /\ gpc' = "refresh_call"
            /\ gloc' = [gloc EXCEPT !.resp = resp]
       ELSE /\ gpc' = "returned"
            /\ gloc' = [gloc EXCEPT !.resp = resp,
                                    !.ret = Some(Err(RefreshError(resp.kind)))]
    /\ UNCHANGED <<dlvars, pkce, since_start, dbvars, now, flowvars, histvars>>

\* The token endpoint answers the refresh request.  A failure returns Err;
\* with a TokenResponse the call enters save_tokens and reads the clock.
RefreshResponse(resp) ==
    /\ gpc = "awaiting"
    /\ IF resp.kind = "ok"
       THEN /\ gpc' = "saving"
            /\ gloc' = [gloc EXCEPT !.resp = resp, !.clock = now]
       ELSE /\ gpc' = "returned"
            /\ gloc' = [gloc EXCEPT !.resp = resp,
                                    !.ret = Some(Err(RefreshError(resp.kind)))]
    /\ UNCHANGED <<dlvars, pkce, since_start, dbvars, now, flowvars, histvars>>

\* save_tokens of the refresh, "conn.execute(UPDATE ...)", and the return of
\* the access_token of the TokenResponse.
RefreshSave ==
    /\ gpc = "saving"
    /\ save_tokens(gloc.resp.access_token, gloc.resp.refresh_token,
                   gloc.resp.expires_in, gloc.clock)
    /\ gpc' = "returned"
    /\ gloc' = [gloc EXCEPT !.ret = Some(RefreshReturn(gloc.resp)),
                            !.clock = 0]
    /\ UNCHANGED <<dlvars, pkce, since_start, now, flowvars, histvars>>

\* get_auth_status, the match on load_auth_state: no row is not configured,
\* a row is configured and authenticated when its access_token is not NULL.
AuthStatus(c, a) ==
    IF c # None
    THEN [configured |-> TRUE, authenticated |-> a # None]
    ELSE [configured |-> FALSE, authenticated |-> FALSE]

\* Mutant of GetAuthStatus: a token near its expiry is refreshed first, as
\* get_valid_access_token does.
GetAuthStatusRefreshing ==
    /\ gpc = "idle"
    /\ gloc' = [NoCall EXCEPT !.status = Some(AuthStatus(creds, access_token))]
    /\ gpc' = IF access_token # None /\ NeedsRefresh(token_expiry, now)
              THEN "refresh_call" ELSE "returned"
    /\ UNCHANGED <<dlvars, pkce, since_start, dbvars, now, flowvars, histvars>>

\* get_auth_status: one load_auth_state, and the status is returned.
GetAuthStatus ==
    /\ gpc = "idle"
    /\ gpc' = "returned"
    /\ gloc' = [NoCall EXCEPT !.status = Some(AuthStatus(creds, access_token))]
    /\ UNCHANGED <<dlvars, pkce, since_start, dbvars, now, flowvars, histvars>>

\* The command has returned; the thread is free for the next one.
Return ==
    /\ gpc = "returned"
    /\ gpc' = "idle"
    /\ gloc' = NoCall
    /\ UNCHANGED <<dlvars, pkce, since_start, dbvars, now, flowvars, histvars>>

\* ------------------------------------------------- generate_code_verifier
\* The base64 alphabets, character 0 first.
UpperLowerDigits ==
    <<"A", "B", "C", "D", "E", "F", "G", "H", "I", "J", "K", "L", "M",
      "N", "O", "P", "Q", "R", "S", "T", "U", "V", "W", "X", "Y", "Z",
      "a", "b", "c", "d", "e", "f", "g", "h", "i", "j", "k", "l", "m",
      "n", "o", "p", "q", "r", "s", "t", "u", "v", "w", "x", "y", "z",
      "0", "1", "2", "3", "4", "5", "6", "7", "8", "9">>

\* Mutant of URL_SAFE_NO_PAD: the standard engine, '+' and '/' and padding.
STANDARD == [alphabet |-> UpperLowerDigits \o <<"+", "/">>, pad |-> TRUE]

\* base64::engine::general_purpose::URL_SAFE_NO_PAD
URL_SAFE_NO_PAD == [alphabet |-> UpperLowerDigits \o <<"-", "_">>, pad |-> FALSE]

RECURSIVE Pow2(_)
Pow2(n) == IF n = 0 THEN 1 ELSE 2 * Pow2(n - 1)

\* The j-th group of six bits (j from 0) of the bytes read as one bit string,
\* the last group filled up with zero bits.
Sextet(bytes, j) ==
    LET k == (6 * j) \div 8
        off == (6 * j) % 8
        hi == bytes[k + 1]
        lo == IF k + 2 <= Len(bytes) THEN bytes[k + 2] ELSE 0
    IN  ((hi * 256 + lo) \div Pow2(10 - off)) % 64

\* engine.encode(bytes): one character for every six bits begun and, for an
\* engine that pads, '=' up to a multiple of four characters.
Encode(engine, bytes) ==
    LET nchars == (8 * Len(bytes) + 5) \div 6
        npad == IF engine.pad THEN (4 - (nchars % 4)) % 4 ELSE 0
    IN  [j \in 1..nchars |-> engine.alphabet[Sextet(bytes, j - 1) + 1]]
        \o [j \in 1..npad |-> "="]

\* What thread_rng can yield for the VERIFIER_BYTES calls of rng.gen(): the
\* byte sequences seed, seed + stride, seed + 2 stride, ... (mod 256).
RngDraws ==
    {[n \in 1..VERIFIER_BYTES |-> (seed + (n - 1) * stride) % 256] :
        seed \in 0..255, stride \in 0..MaxStride}

\* generate_code_verifier: VERIFIER_BYTES random bytes, encoded.
generate_code_verifier(bytes) == Encode(URL_SAFE_NO_PAD, bytes)

GenerateCodeVerifier ==
    /\ code_verifier = << >>
    /\ Len(rng) = VERIFIER_BYTES
    /\ code_verifier' = generate_code_verifier(rng)
    /\ UNCHANGED <<dlvars, rng, since_start, dbvars, now, flowvars, gvars,
                   histvars>>

\* ---------------------------------------------------------- specifications
\* generate_code_verifier alone, on every draw of RngDraws.
InitVerifier ==
    /\ InitProgram
    /\ InitDownloads
    /\ rng \in RngDraws
    /\ code_verifier = << >>

NextVerifier == GenerateCodeVerifier

SpecVerifier == InitVerifier /\ [][NextVerifier]_vars

\* The authorization flow: overlapping start_auth_flow calls, one client, one
\* token response of each kind, and one request of each kind the loop body
\* tells apart: off the callback path, without a query, and with or without
\* `code`, `error` and `state`, the state being that of any flow or of none,
\* spelled plainly or percent-encoded.
FlowQueries ==
    {c \o st \o e :
        c \in {<< >>, <<<<"code", Some(Raw("plain", 1))>>>>},
        st \in {<< >>, <<<<"state", Some(Raw("pct", 1))>>>>}
              \cup {<<<<"state", Some(Raw("plain", v))>>>> : v \in 1..Bogus},
        e \in {<< >>, <<<<"error", Some(Raw("plain", 1))>>>>}}

FlowRequests ==
    {[path |-> p, query |-> None] : p \in {"/callback"} \cup OtherPaths}
    \cup {[path |-> "/callback", query |-> Some(q)] : q \in FlowQueries}

FlowResponses ==
    {Resp(k, "", None, None) : k \in Failures}
    \cup {Resp("ok", "AT1", Some("RT1"), None)}

Next ==
    \/ SaveCredentials("clientA")
    \/ ClearTokens
    \/ StartNotConfigured
    \/ StartGenerate(MaxFlows)
    \/ \E i \in Flows : StartStore(i)
    \/ \E i \in Flows : StartSpawn(i)
    \/ \E i \in Flows : StartFinish(i)
    \/ \E i \in Flows : Bind(i)
    \/ \E i \in Flows : Wait(i, RECV_TIMEOUT)
    \/ \E i \in Flows : Timeout(i)
    \/ \E i \in Flows, req \in FlowRequests : RecvStray(i, req)
    \/ \E i \in Flows, req \in FlowRequests : HandleCallback(i, req)
    \/ \E i \in Flows : ExchangeSend(i)
    \/ \E i \in Flows, resp \in FlowResponses : ExchangeResponse(i, resp)
    \/ \E i \in Flows : ExchangeSave(i)
    \/ \E i \in Flows : ExchangeClear(i)
    \/ \E i \in Flows : Exit(i)

Spec == Init /\ [][Next]_vars

\* The listener and its timeout: the flows of SpecLifecycle, every request a
\* listener can receive, and time passing in steps of half the timeout.
WaitStep == RECV_TIMEOUT \div 2

NextListener ==
    \/ \E c \in CredValues : SaveCredentials(c)
    \/ ClearTokens
    \/ StartGenerate(MaxLifecycleFlows)
    \/ \E i \in Flows : StartStore(i)
    \/ \E i \in Flows : StartSpawn(i)
    \/ \E i \in Flows : StartFinish(i)
    \/ \E i \in Flows : Bind(i)
    \/ \E i \in Flows : Wait(i, WaitStep)
    \/ \E i \in Flows : Timeout(i)
    \/ \E i \in Flows, req \in Requests : RecvStray(i, req)
    \/ \E i \in Flows, req \in Requests : HandleCallback(i, req)
    \/ \E i \in Flows : ExchangeSend(i)
    \/ \E i \in Flows, resp \in FlowResponses : ExchangeResponse(i, resp)
    \/ \E i \in Flows : ExchangeSave(i)
    \/ \E i \in Flows : ExchangeClear(i)
    \/ \E i \in Flows : Exit(i)

SpecListener == Init /\ [][NextListener]_vars

\* The token lifecycle: the clock, the lifecycle commands racing with logout
\* and with the exchange of a flow; the callback requests are the well-formed
\* ones carrying the state of a flow.  The token endpoint answers an exchange
\* with a failure or with a TokenResponse whose access token is "AT1", with
\* or without the refresh token "RT1" and expires_in, or "" with both, and a
\* refresh with a failure or with a TokenResponse whose access token is
\* "AT2", with or without the refresh token "RT2" and expires_in.
LifecycleRequests ==
    {[path |-> "/callback",
      query |-> Some(<<<<"code", Some(Raw("plain", 1))>>,
                       <<"state", Some(Raw("plain", v))>>>>)] :
        v \in 1..MaxLifecycleFlows}

ExchangeAnswers ==
    {r \in Responses :
        r.kind = "ok" => /\ r.access_token \in {"", "AT1"}
                         /\ r.refresh_token \in {None, Some("RT1")}
                         /\ r.access_token = "" =>
                                /\ r.refresh_token # None
                                /\ r.expires_in # None}

RefreshAnswers ==
    {r \in Responses :
        r.kind = "ok" => /\ r.access_token = "AT2"
                         /\ r.refresh_token \in {None, Some("RT2")}}

NextLifecycle ==
    \/ SaveCredentials("clientA")
    \/ ClearTokens
    \/ Tick
    \/ StartGenerate(MaxLifecycleFlows)
    \/ \E i \in Flows : StartStore(i)
    \/ \E i \in Flows : StartSpawn(i)
    \/ \E i \in Flows : StartFinish(i)
    \/ \E i \in Flows : Bind(i)
    \/ \E i \in Flows, req \in LifecycleRequests : HandleCallback(i, req)
    \/ \E i \in Flows : ExchangeSend(i)
    \/ \E i \in Flows, resp \in ExchangeAnswers : ExchangeResponse(i, resp)
    \/ \E i \in Flows : ExchangeSave(i)
    \/ \E i \in Flows : ExchangeClear(i)
    \/ \E i \in Flows : Exit(i)
    \/ GetAuthStatus
    \/ GetValid
    \/ GetValidDecide
    \/ RefreshSend
    \/ \E resp \in RefreshAnswers : RefreshResponse(resp)
    \/ RefreshSave
    \/ Return

SpecLifecycle == Init /\ [][NextLifecycle]_vars

\* The stored token set under everything that may outlast it: overlapping
\* start_auth_flow calls with their listeners timing out, the clock, and the
\* refresh commands.  The callback request is the well-formed one carrying
\* the state string of the first flow, which matches the slot until a later
\* call overwrites it.  The token endpoint answers an exchange with a
\* TokenResponse carrying an access token, with or without a refresh token,
\* and an expires_in of one second, so that the clock passes the stored
\* expiry; it answers a refresh with a failure, so that the save_tokens of
\* a refresh is never reached.
DurabilityRequests ==
    {[path |-> "/callback",
      query |-> Some(<<<<"code", Some(Raw("plain", 1))>>,
                       <<"state", Some(Raw("plain", 1))>>>>)]}

DurabilityExchange ==
    {Resp("ok", "AT1", r, Some(1)) : r \in {None, Some("RT1")}}

DurabilityRefresh == {Resp(k, "", None, None) : k \in Failures}

NextDurability ==
    \/ SaveCredentials("clientA")
    \/ ClearTokens
    \/ Tick
    \/ StartGenerate(MaxFlows)
    \/ \E i \in Flows : StartStore(i)
    \/ \E i \in Flows : StartSpawn(i)
    \/ \E i \in Flows : StartFinish(i)
    \/ \E i \in Flows : Bind(i)
    \/ \E i \in Flows : Wait(i, RECV_TIMEOUT)
    \/ \E i \in Flows : Timeout(i)
    \/ \E i \in Flows, req \in DurabilityRequests : HandleCallback(i, req)
    \/ \E i \in Flows : ExchangeSend(i)
    \/ \E i \in Flows, resp \in DurabilityExchange : ExchangeResponse(i, resp)
    \/ \E i \in Flows : ExchangeSave(i)
    \/ \E i \in Flows : ExchangeClear(i)
    \/ \E i \in Flows : Exit(i)
    \/ GetValid
    \/ GetValidDecide
    \/ RefreshSend
    \/ \E resp \in DurabilityRefresh : RefreshResponse(resp)
    \/ Return

SpecDurability == Init /\ [][NextDurability]_vars

\* ------------------------------------------------- the download registry
\* (bookshelf.rs)  Everything this module models besides the registry.
oauthvars == <<dbvars, now, flowvars, gvars, histvars, since_start, pkce>>

\* AtomicBool::new(false)
NewFlag == FALSE

\* register_download(file_id), called by download d: a new flag is
\* allocated, inserted under file_id (replacing what the map held there) and
\* returned.
register_download(d, file_id) ==
    /\ dpc[d] = "idle"
    /\ flag' = Append(flag, NewFlag)
    /\ registry' = [registry EXCEPT ![file_id] = Some(Len(flag) + 1)]
    /\ dl_flag' = [dl_flag EXCEPT ![d] = Len(flag) + 1]
    /\ dl_id' = [dl_id EXCEPT ![d] = file_id]
    /\ dpc' = [dpc EXCEPT ![d] = "running"]
    /\ last_op' = [last_op EXCEPT ![file_id] = "register"]
    /\ UNCHANGED <<oauthvars, cpc, cancel_call>>

\* unregister_download(file_id), called by download d with the id it
\* registered, when it ends: guard.remove(file_id).
unregister_download(d) ==
    /\ dpc[d] = "running"
    /\ registry' = [registry EXCEPT ![dl_id[d]] = None]
    /\ dpc' = [dpc EXCEPT ![d] = "done"]
    /\ last_op' = [last_op EXCEPT ![dl_id[d]] = "unregister"]
    /\ UNCHANGED <<oauthvars, flag, dl_id, dl_flag, cpc, cancel_call>>

\* Mutant of cancel_download: every registered download is cancelled.
cancel_download_all(file_id) ==
    /\ cpc = "idle"
    /\ cpc' = "returned"
    /\ cancel_call' = [id |-> file_id, ret |-> registry[file_id] # None]
    /\ flag' = IF registry[file_id] # None
               THEN [h \in DOMAIN flag |->
                       IF \E id \in FileIds : registry[id] = Some(h)
                       THEN TRUE ELSE flag[h]]
               ELSE flag
    /\ UNCHANGED <<oauthvars, registry, dpc, dl_id, dl_flag, last_op>>

\* cancel_download(file_id): under the lock, the flag the map holds for
\* file_id is set and true is returned, or false when the map has none.
cancel_download(file_id) ==
    /\ cpc = "idle"
    /\ cpc' = "returned"
    /\ cancel_call' = [id |-> file_id, ret |-> registry[file_id] # None]
    /\ flag' = IF registry[file_id] # None
               THEN [flag EXCEPT ![Unwrap(registry[file_id])] = TRUE]
               ELSE flag
    /\ UNCHANGED <<oauthvars, registry, dpc, dl_id, dl_flag, last_op>>

\* The caller of cancel_download has its answer; the thread is free for the
\* next call.
CancelReturn ==
    /\ cpc = "returned"
    /\ cpc' = "idle"
    /\ cancel_call' = NoCancel
    /\ UNCHANGED <<oauthvars, registry, flag, dpc, dl_id, dl_flag, last_op>>

NextDownloads ==
    \/ \E d \in Downloads, id \in FileIds : register_download(d, id)
    \/ \E d \in Downloads : unregister_download(d)
    \/ \E id \in FileIds : cancel_download(id)
    \/ CancelReturn

SpecDownloads == Init /\ [][NextDownloads]_vars

\* ------------------------------------------------------------------ claims
\* A listener that has called exchange_code_for_tokens and not yet answered.
ExchangePcs == {"exchange", "awaiting", "saving", "saved"}

\* Flows whose state was written to the slot and since overwritten by the
\* start_auth_flow of another flow.
Superseded ==
    {s \in Flows : spc[s] \in {"stored", "spawned", "returned"} /\ s # latest}

\* C1: a listener calls exchange_code_for_tokens (and so gets to persist a
\* token) only for a callback handled while a FlowState was active and whose
\* decoded `state` parameter was present and equal to that FlowState's state.
C1_ExchangeOnlyOnActiveMatch ==
    \A i \in Flows :
        lpc[i] \in ExchangePcs =>
            /\ lloc[i].expected # None
            /\ lloc[i].received # None
            /\ lloc[i].received = lloc[i].expected

\* C2: a callback that carries the state of a flow whose FlowState a later
\* start_auth_flow has already replaced never reaches the code exchange.
C2_SupersededStateRejected ==
    [][\A i \in Flows :
          (lpc[i] = "waiting" /\ lpc'[i] = "exchange") =>
              \A s \in Superseded : lloc'[i].received # Some(s)]_vars

\* C2 witness: two flows were started, no exchange ran for the first, and a
\* callback carrying the first flow's state got the state-failure page.
C2_Witness ==
    \E i \in Flows, s \in Superseded :
        /\ lpc[i] = "responded"
        /\ lloc[i].page = "state_failed_page"
        /\ lloc[i].received = Some(s)
        /\ lloc[i].expected = Some(latest)
        /\ xsent[s] = 0

\* C3: the FlowState of the most recent start_auth_flow stays in the slot
\* until the exchange of its own callback succeeds (or a later
\* start_auth_flow replaces it): the end of an earlier flow's exchange does
\* not remove it.
C3_LatestFlowStateSurvives ==
    (latest # 0 /\ latest \notin consumed) =>
        flow_state = Some(NewFlowState(latest))

\* C4 as claimed: no state ever has two token requests sent by exchanges
\* whose callback matched the state of the same flow.
C4_OneExchangePerFlow == \A s \in Flows : xsent[s] <= 1

\* C4 amended: when exchange_code_for_tokens returns Ok the slot is None, and
\* no listener calls exchange_code_for_tokens for a callback whose state was
\* already consumed by a successful exchange (so the exchange succeeds at
\* most once per flow).
C4_ConsumedStateNotExchanged ==
    /\ [](\A i \in Flows :
            (lpc[i] \in ExchangePcs /\ lloc[i].received # None) =>
                Unwrap(lloc[i].received) \notin consumed)
    /\ [][\A i \in Flows :
            (lpc[i] = "saved" /\ lpc'[i] = "responded") => flow_state' = None]_vars

\* C4 witness: the exchange of a flow succeeded and a later listener answered
\* a replay of the consumed state with the state-failure page.
C4_Witness ==
    \E i \in Flows :
        /\ lpc[i] = "responded"
        /\ lloc[i].page = "state_failed_page"
        /\ lloc[i].received # None
        /\ Unwrap(lloc[i].received) \in consumed

\* C5: when the token endpoint answers the exchange of a callback with
\* access_token A, refresh_token R and expires_in E, save_tokens reads the
\* clock, and the row after its UPDATE holds access_token A, refresh_token R
\* and token_expiry (the time save_tokens read) + E.
C5_ExchangeStoresTokenSet ==
    [][\A i \in Flows :
          /\ (lpc[i] = "awaiting" /\ lpc'[i] = "saving") =>
                 lloc'[i].clock = now
          /\ (lpc[i] = "awaiting" /\ lloc'[i].resp.kind = "ok") =>
                 lpc'[i] = "saving"
          /\ (lpc[i] = "saving" /\ lpc'[i] # "saving") =>
                 LET r == lloc[i].resp IN
                 /\ lpc'[i] = "saved"
                 /\ access_token' = Some(r.access_token)
                 /\ r.refresh_token # None => refresh_token' = r.refresh_token
                 /\ r.expires_in # None =>
                        token_expiry' =
                            Some(lloc[i].clock + Unwrap(r.expires_in))]_vars

\* C5 witness: a listener whose callback matched the flow's state has just
\* saved a response with all three fields, and the expiry stored is a time
\* after the clock advanced plus expires_in.
C5_Witness ==
    \E i \in Flows :
        /\ lpc[i] = "saved"
        /\ lloc[i].expected = Some(i)
        /\ lloc[i].resp.refresh_token # None
        /\ lloc[i].resp.expires_in # None
        /\ access_token = Some(lloc[i].resp.access_token)
        /\ refresh_token = lloc[i].resp.refresh_token
        /\ \E t \in 1..now :
               token_expiry = Some(t + Unwrap(lloc[i].resp.expires_in))

\* The pages that report a failure to the browser.
FailurePages == {"failed_page", "state_failed_page", "error_page"}

\* C6: a callback request whose query holds an `error` parameter never gets
\* the listener to call exchange_code_for_tokens, and is answered with a
\* failure page.
C6_ErrorParameterNeverExchanged ==
    \A i \in Flows :
        lloc[i].err =>
            /\ lpc[i] \notin ExchangePcs
            /\ lpc[i] = "responded" => lloc[i].page \in FailurePages

\* The step is a save_tokens of token response r and treats the stored
\* refresh token as C7 says.
RefreshTokenKeptOrSet(r) ==
    IF r.refresh_token = None
    THEN refresh_token' = refresh_token
    ELSE refresh_token' = r.refresh_token

\* C7: a save_tokens whose response has no refresh_token leaves the stored
\* one unchanged, one with refresh_token x stores x, and the only step that
\* turns a stored refresh token into NULL is clear_tokens.
C7_RefreshTokenPreserved ==
    [][/\ \A i \in Flows :
            (lpc[i] = "saving" /\ lpc'[i] = "saved") =>
                RefreshTokenKeptOrSet(lloc[i].resp)
       /\ (gpc = "saving" /\ gpc' = "returned") =>
                RefreshTokenKeptOrSet(gloc.resp)
       /\ (refresh_token # None /\ refresh_token' = None) => ClearTokens]_vars

\* C7 witness: a refresh whose response had no refresh_token has returned and
\* a refresh token is still stored.
C7_Witness ==
    /\ gpc = "returned"
    /\ gloc.resp.kind = "ok"
    /\ gloc.resp.refresh_token = None
    /\ refresh_token # None

\* C8: a refresh started by get_valid_access_token, answered with an access
\* token and no refresh_token while a refresh token is stored, stores that
\* access token, leaves the refresh token, and returns the access token that
\* is now stored; and get_valid_access_token on an expired token set with a
\* stored refresh token sends the refresh request.
C8_RefreshKeepsRefreshToken ==
    [][/\ (/\ gpc = "saving" /\ gpc' # "saving"
           /\ ~gloc.direct
           /\ gloc.resp.refresh_token = None
           /\ refresh_token # None) =>
              /\ gpc' = "returned"
              /\ access_token' = Some(gloc'.resp.access_token)
              /\ refresh_token' = refresh_token
              /\ gloc'.ret = Some(Ok(gloc'.resp.access_token))
              /\ gloc'.ret = Some(Ok(Unwrap(access_token')))
       /\ (/\ gpc = "refresh_call" /\ gpc' # gpc
           /\ refresh_token # None) => gpc' = "awaiting"]_vars

\* C8 witness: get_valid_access_token has returned "AT2" from a refresh
\* whose response had no refresh_token; "AT2" and the old refresh token are
\* stored.
C8_Witness ==
    /\ gpc = "returned"
    /\ ~gloc.direct
    /\ gloc.resp.kind = "ok"
    /\ gloc.resp.refresh_token = None
    /\ gloc.ret = Some(Ok("AT2"))
    /\ access_token = Some("AT2")
    /\ refresh_token = Some("RT1")

\* The caller thread leaves the first step of get_valid_access_token.
GetValidFirstStep ==
    gpc = "idle" /\ gpc' # "idle" /\ ~gloc'.direct /\ gloc'.status = None

\* C9: get_valid_access_token on a row with an access token and an expiry
\* loads that access token and that expiry, reads the clock, and calls
\* refresh_access_token when the time read >= expiry - 300, and otherwise
\* returns the access token it loaded and leaves the row as it is.
C9_RefreshThreshold ==
    [][/\ (GetValidFirstStep /\ access_token # None /\ token_expiry # None) =>
              /\ gpc' = "loaded"
              /\ gloc'.row = Some([access_token |-> Unwrap(access_token),
                                   token_expiry |-> token_expiry])
       /\ (/\ gpc = "loaded" /\ gpc' # "loaded"
           /\ Unwrap(gloc.row).token_expiry # None) =>
              IF now >= Unwrap(Unwrap(gloc.row).token_expiry) - 300
              THEN gpc' = "refresh_call"
              ELSE /\ gpc' = "returned"
                   /\ gloc'.ret = Some(Ok(Unwrap(gloc.row).access_token))
                   /\ UNCHANGED dbvars]_vars

\* C9 witness: get_valid_access_token is about to refresh exactly at the
\* threshold, now = expiry - 300.
C9_Witness ==
    /\ gpc = "refresh_call"
    /\ token_expiry # None
    /\ now = Unwrap(token_expiry) - 300

\* C10: while no client credentials are stored, no step writes the FlowState
\* slot, draws the nonces of a flow or spawns a listener, and the only thing
\* start_auth_flow returns is NotConfigured.
C10_NotConfiguredStartsNothing ==
    [][creds = None =>
          /\ flow_state' = flow_state
          /\ nflows' = nflows
          /\ spc' = spc
          /\ lpc' = lpc
          /\ start_ret' \in {start_ret, "NotConfigured"}]_vars

\* C10 witness: start_auth_flow has returned NotConfigured, nothing is
\* stored, the slot is empty and no listener thread exists.
C10_Witness ==
    /\ start_ret = "NotConfigured"
    /\ creds = None
    /\ flow_state = None
    /\ \A i \in Flows : lpc[i] = "unspawned"

\* C11: a bound listener receives at most one request: after the first
\* request, whatever its path and outcome, it receives no other.
C11_AtMostOneRequest == port # 0 => served <= 1

\* C12: a listener that bound the port is never still waiting for a request
\* more than the 5-minute timeout after it bound.
C12_WaitBoundedByTimeout ==
    \A i \in Flows : lpc[i] = "waiting" => bound_for <= RECV_TIMEOUT

\* C13: when the listener of a flow cannot bind the port, the start_auth_flow
\* call of that flow, once it has returned, has returned CallbackServerFailed
\* and not an authorization URL.
C13_BindFailureSurfaced ==
    \A i \in Flows :
        (lpc[i] = "failed" /\ spc[i] = "returned") =>
            StartReturn(i) = "CallbackServerFailed"

\* C14: a listener answers with the success page only when the token
\* response of its own exchange was saved, and answers with a failure page
\* whenever the callback's state did not match, the callback carried an
\* `error` parameter, or the exchange failed.
C14_PagesFollowOutcome ==
    \A i \in Flows :
        lpc[i] = "responded" =>
            /\ lloc[i].page = "success_page" => lloc[i].resp.kind = "ok"
            /\ (\/ lloc[i].expected # lloc[i].received
                \/ lloc[i].err
                \/ lloc[i].resp.kind \in Failures) =>
                   lloc[i].page \in FailurePages

\* C15: a get_auth_status call returns at once, without a refresh and
\* without sending a token request, and leaves the google_auth row and the
\* FlowState slot as they were, whatever is stored.
C15_StatusIsPureRead ==
    [][(gloc.status = None /\ gloc'.status # None) =>
          /\ gpc' = "returned"
          /\ gloc'.sent = 0
          /\ xsent' = xsent
          /\ UNCHANGED <<dbvars, flow_state>>]_vars

\* C15 witness: get_auth_status has returned "authenticated" for a stored
\* access token that get_valid_access_token would refresh at this time.
C15_Witness ==
    /\ gpc = "returned"
    /\ gloc.status = Some([configured |-> TRUE, authenticated |-> TRUE])
    /\ NeedsRefresh(token_expiry, now)
    /\ refresh_token # None

\* C16: a get_auth_status call reports configured exactly when a credentials
\* row is stored, and authenticated exactly when an access token is stored
\* and is not the empty string.
C16_StatusMatchesStore ==
    [][(gloc.status = None /\ gloc'.status # None) =>
          gloc'.status =
              Some([configured |-> creds # None,
                    authenticated |-> /\ access_token # None
                                      /\ Unwrap(access_token) # ""])]_vars

\* C17: a clear_tokens step leaves access_token, refresh_token and
\* token_expiry all NULL and the credentials as they were, so that with
\* credentials stored the status afterwards is configured and not
\* authenticated; and the only step that changes the stored credentials is
\* save_credentials.
C17_LogoutKeepsCredentials ==
    [][/\ ClearTokens =>
            /\ access_token' = None
            /\ refresh_token' = None
            /\ token_expiry' = None
            /\ creds' = creds
            /\ creds # None =>
                   AuthStatus(creds', access_token') =
                       [configured |-> TRUE, authenticated |-> FALSE]
       /\ creds' # creds => \E c \in CredValues : SaveCredentials(c)]_vars

\* C17 witness: after a logout nothing of the token set is stored, the
\* credentials are, and get_auth_status has returned configured and not
\* authenticated; an exchange had stored tokens before.
C17_Witness ==
    /\ creds # None
    /\ access_token = None
    /\ refresh_token = None
    /\ token_expiry = None
    /\ gpc = "returned"
    /\ gloc.status = Some([configured |-> TRUE, authenticated |-> FALSE])
    /\ consumed # {}

\* C18: an invocation of exchange_code_for_tokens, refresh_access_token or
\* get_valid_access_token sends at most one token request, and once its
\* request has been answered with a failure it returns without sending it
\* again.
C18_NoAutomaticRetry ==
    /\ [](/\ gloc.sent <= 1
          /\ \A i \in Flows : lloc[i].sent <= 1)
    /\ [][/\ (gpc = "awaiting" /\ gpc' # gpc) =>
                 IF gloc'.resp.kind \in Failures
                 THEN gpc' = "returned"
                 ELSE gpc' = "saving"
           /\ (gpc = "saving" /\ gpc' # gpc) => gpc' = "returned"]_vars
    /\ [][\A i \in Flows :
            (lpc[i] = "awaiting" /\ lpc'[i] # lpc[i]
             /\ lloc'[i].resp.kind \in Failures) => lpc'[i] = "responded"]_vars

\* C18 witness: a get_valid_access_token call whose one refresh request
\* failed in transit has returned the error, and the exchange of a callback
\* has sent its one request.
C18_Witness ==
    /\ gpc = "returned"
    /\ ~gloc.direct
    /\ gloc.sent = 1
    /\ gloc.resp.kind = "network_error"
    /\ gloc.ret = Some(Err("HttpRequestFailed"))
    /\ \E i \in Flows : lloc[i].sent = 1

\* The characters of the standard base64 alphabet that a verifier must not
\* hold.
ForbiddenChars == {"+", "/", "="}

\* C19: every code verifier generate_code_verifier returns is 43 to 128
\* characters long and holds none of '+', '/' and '='.
C19_VerifierLengthAndAlphabet ==
    code_verifier # << >> =>
        /\ Len(code_verifier) >= 43
        /\ Len(code_verifier) <= 128
        /\ \A k \in 1..Len(code_verifier) : code_verifier[k] \notin ForbiddenChars

\* C19 witness: a verifier drawn from bytes whose six-bit groups include 62
\* and 63, the two values the URL-safe alphabet spells differently.
C19_Witness ==
    /\ code_verifier # << >>
    /\ \E k \in 1..Len(code_verifier) : code_verifier[k] = "-"
    /\ \E k \in 1..Len(code_verifier) : code_verifier[k] = "_"

\* Verifier v and state s were stored together, as one FlowState.
SameFlowState(v, s) ==
    \E f \in Flows : NewFlowState(f).code_verifier = v /\ NewFlowState(f).state = s

\* C20: the code_verifier an exchange has sent in its token request belongs
\* to the FlowState whose state the callback's state was compared equal to.
C20_VerifierOfMatchedState ==
    \A i \in Flows :
        lloc[i].verifier # None =>
            /\ lloc[i].expected # None
            /\ SameFlowState(Unwrap(lloc[i].verifier), Unwrap(lloc[i].expected))

\* Listener threads that hold the port or are about to try to bind it.
LiveListeners == {i \in Flows : lpc[i] \notin {"unspawned", "failed", "timed_out", "exited"}}

\* C21: while the FlowState of the newest start_auth_flow call is the active
\* one and less than the listener timeout has passed since that call, some
\* listener holds the port or is about to bind it.  (Stated for the time
\* after that call has returned its URL and before the newest flow's own
\* listener has served its one callback.)
C21_NewestFlowHasListener ==
    (/\ latest # 0
     /\ spc[latest] = "returned"
     /\ flow_state = Some([code_verifier |-> latest, state |-> latest])
     /\ since_start < RECV_TIMEOUT
     /\ lpc[latest] # "exited") => LiveListeners # {}

\* C22: the FlowState in the slot is always the verifier and the state drawn
\* by one start_auth_flow call, the call that wrote the slot last; and a
\* call whose pair was overwritten, when it returns, returns the URL like
\* any other: no start_auth_flow call returns an error other than
\* NotConfigured.
C22_ActiveFlowStateIsOnePair ==
    /\ flow_state # None =>
           /\ Unwrap(flow_state).code_verifier = latest
           /\ Unwrap(flow_state).state = latest
    /\ \A s \in Superseded : spc[s] = "returned" => StartReturn(s) = "url"
    /\ start_ret \in {"none", "url", "NotConfigured"}

\* C22 witness: two calls overlapped, the call that drew its nonces first
\* wrote the slot last while the other was between its slot write and its
\* return, both have returned, and the first call's pair is the active
\* FlowState.
C22_Witness ==
    /\ Superseded = {2}
    /\ spc[2] = "returned"
    /\ spc[1] = "returned"
    /\ start_ret = "url"
    /\ latest = 1
    /\ flow_state = Some([code_verifier |-> 1, state |-> 1])

\* C23: a refresh that was in flight when clear_tokens ran writes no access
\* token afterwards.  (A refresh request is sent only with a refresh token
\* stored, and a stored refresh token comes with a stored access token: a
\* refresh awaiting its answer, or about to save it, while no access token
\* is stored was in flight when clear_tokens ran.)
C23_LogoutIsFinal ==
    [][(gpc = "saving" /\ gpc' = "returned" /\ access_token = None) =>
          access_token' = None]_vars

\* C24: an exchange_code_for_tokens call that fails, before or after its
\* token request, leaves the google_auth row and the FlowState slot as they
\* were; the slot is set to None only at the end of a successful exchange.
C24_FailedExchangeChangesNothing ==
    [][/\ \A i \in Flows :
            (lpc[i] \in {"exchange", "awaiting"} /\ lpc'[i] = "responded") =>
                UNCHANGED <<dbvars, flow_state>>
       /\ (flow_state # None /\ flow_state' = None) =>
            \E i \in Flows : lpc[i] = "saved" /\ lpc'[i] = "responded"]_vars

\* C24 witness: with a token set stored by an earlier flow and a FlowState
\* active, an exchange whose response could not be persisted has ended with
\* the failure page; the token set and the FlowState are still there.
C24_Witness ==
    \E i \in Flows :
        /\ lpc[i] = "responded"
        /\ lloc[i].page = "failed_page"
        /\ lloc[i].resp.kind = "save_error"
        /\ flow_state # None
        /\ access_token # None

\* C25: exchange_code_for_tokens returns NotConfigured when no credentials
\* are stored, whatever the slot holds; else AuthorizationFailed when the
\* slot is None; in both cases without sending a token request; else it
\* sends the request, and returns TokenExchangeFailed for a status that is
\* not a success and InvalidResponse for a body that does not parse.
C25_ExchangeErrorsInOrder ==
    /\ [](\A fs \in {None, flow_state} :
            /\ ExchangePrecheck(None, fs) = "NotConfigured"
            /\ creds # None => ExchangePrecheck(creds, None) = "AuthorizationFailed")
    /\ [][\A i \in Flows :
            /\ (lpc[i] = "exchange" /\ lpc'[i] # "exchange") =>
                  IF creds = None
                  THEN /\ lpc'[i] = "responded"
                       /\ lloc'[i].ret = "NotConfigured"
                       /\ lloc'[i].sent = 0
                  ELSE IF flow_state = None
                  THEN /\ lpc'[i] = "responded"
                       /\ lloc'[i].ret = "AuthorizationFailed"
                       /\ lloc'[i].sent = 0
                  ELSE /\ lpc'[i] = "awaiting"
                       /\ lloc'[i].sent = 1
            /\ (lpc[i] = "awaiting" /\ lpc'[i] = "responded") =>
                  /\ lloc'[i].resp.kind = "http_error" =>
                         lloc'[i].ret = "TokenExchangeFailed"
                  /\ lloc'[i].resp.kind = "bad_json" =>
                         lloc'[i].ret = "InvalidResponse"]_vars

\* C25 witness: after the exchange of a flow succeeded and emptied the slot,
\* the exchange of a later callback has returned AuthorizationFailed without
\* sending a request.
C25_Witness ==
    \E i \in Flows :
        /\ lpc[i] = "responded"
        /\ lloc[i].ret = "AuthorizationFailed"
        /\ lloc[i].sent = 0
        /\ lloc[i].page = "failed_page"
        /\ consumed # {}

\* The caller thread's command has just returned an error.
ReturnsErr == gpc # "returned" /\ gpc' = "returned" /\ gloc'.ret # None
              /\ Unwrap(gloc'.ret).tag = "Err"

\* C26: the passing of time (through the stored expiry included), the
\* timeout of a listener and a refresh (or get_valid_access_token) that
\* returns an error, for a missing refresh token as for a failed request,
\* leave access_token, refresh_token and token_expiry as they were, and the
\* only step that turns a stored access token into NULL is clear_tokens.
C26_TokenSetNotDestroyedImplicitly ==
    [][/\ now' # now => UNCHANGED dbvars
       /\ (\E i \in Flows : lpc[i] = "waiting" /\ lpc'[i] = "timed_out") =>
              UNCHANGED dbvars
       /\ ReturnsErr => UNCHANGED dbvars
       /\ (access_token # None /\ access_token' = None) => ClearTokens]_vars

\* C26 witness: a token set with an access token and no refresh token is
\* stored, the clock has passed its expiry, a listener has timed out, and a
\* refresh has returned TokenRefreshFailed for the missing refresh token
\* without sending a request; the access token and the expiry are still
\* stored.
C26_Witness ==
    /\ gpc = "returned"
    /\ gloc.ret = Some(Err("TokenRefreshFailed"))
    /\ gloc.sent = 0
    /\ access_token # None
    /\ refresh_token = None
    /\ token_expiry # None
    /\ now >= Unwrap(token_expiry)
    /\ \E i \in Flows : lpc[i] = "timed_out"

\* The caller thread leaves the first step of refresh_access_token, called
\* by get_valid_access_token or as a command of its own.
RefreshFirstStep ==
    \/ gpc = "refresh_call" /\ gpc' # "refresh_call"
    \/ gpc = "idle" /\ gpc' # "idle" /\ gloc'.direct

\* C27 as stated: whenever no refresh token is stored, the first step of
\* refresh_access_token returns Err(TokenRefreshFailed) and sends no token
\* request.
C27_NoRefreshTokenFailsRefresh ==
    [][(refresh_token = None /\ RefreshFirstStep) =>
           /\ gpc' = "returned"
           /\ gloc'.ret = Some(Err("TokenRefreshFailed"))
           /\ gloc'.sent = 0]_vars

\* C27 amended: with no refresh token stored, the first step of
\* refresh_access_token, called as a command or by get_valid_access_token,
\* returns an error, sends no token request and leaves the row as it is;
\* the error is TokenRefreshFailed when client credentials are stored and
\* NotConfigured when there is no google_auth row.
C27_NoRefreshTokenNoRequest ==
    [][(refresh_token = None /\ RefreshFirstStep) =>
           /\ gpc' = "returned"
           /\ gloc'.ret = Some(Err(IF creds # None THEN "TokenRefreshFailed"
                                                   ELSE "NotConfigured"))
           /\ gloc'.sent = 0
           /\ UNCHANGED dbvars]_vars

\* C27 witness: get_valid_access_token found the stored access token due for
\* a refresh, no refresh token is stored, and the call has returned
\* TokenRefreshFailed with no request sent.
C27_Witness ==
    /\ gpc = "returned"
    /\ ~gloc.direct
    /\ gloc.ret = Some(Err("TokenRefreshFailed"))
    /\ gloc.sent = 0
    /\ creds # None
    /\ access_token # None
    /\ refresh_token = None
    /\ NeedsRefresh(token_expiry, now)

\* C28: get_valid_access_token on a row with an access token and a NULL
\* token_expiry loads that row and, whatever the clock reads, returns the
\* access token it loaded: no call of refresh_access_token, no token
\* request, the row unchanged.
C28_NoExpiryNoRefresh ==
    [][/\ (GetValidFirstStep /\ access_token # None /\ token_expiry = None) =>
              /\ gpc' = "loaded"
              /\ gloc'.row = Some([access_token |-> Unwrap(access_token),
                                   token_expiry |-> None])
              /\ UNCHANGED dbvars
       /\ (/\ gpc = "loaded" /\ gpc' # "loaded"
           /\ Unwrap(gloc.row).token_expiry = None) =>
              /\ gpc' = "returned"
              /\ gloc'.ret = Some(Ok(Unwrap(gloc.row).access_token))
              /\ gloc'.sent = 0
              /\ UNCHANGED dbvars]_vars

\* C28 witness: the clock has advanced to its last value, the row has an
\* access token, a refresh token and no expiry, and get_valid_access_token
\* has returned the stored access token.
C28_Witness ==
    /\ gpc = "returned"
    /\ ~gloc.direct
    /\ gloc.status = None
    /\ now = MaxTime
    /\ access_token # None
    /\ refresh_token # None
    /\ token_expiry = None
    /\ gloc.ret = Some(Ok(Unwrap(access_token)))
    /\ gloc.sent = 0

\* The step in which save_tokens succeeds with the TokenResponse resp: in the
\* exchange of a listener or in refresh_access_token.
SavesResponse(resp) ==
    \/ \E i \in Flows : /\ lpc[i] = "saving"
                        /\ lpc'[i] = "saved"
                        /\ lloc[i].resp = resp
    \/ /\ gpc = "saving"
       /\ gpc' = "returned"
       /\ gloc.resp = resp

\* C29: a save_tokens of a response without expires_in leaves token_expiry
\* NULL whatever it was; get_valid_access_token calls refresh_access_token
\* only when the row it loaded has an expiry; and a NULL expiry becomes an expiry only by
\* the save_tokens of a response with expires_in, which replaces the access
\* token.
C29_AbsentExpiryOverwrites ==
    [][/\ \A resp \in Responses :
             (resp.kind = "ok" /\ resp.expires_in = None /\ SavesResponse(resp))
                 => token_expiry' = None
       /\ (gpc = "loaded" /\ gpc' = "refresh_call") =>
             Unwrap(gloc.row).token_expiry # None
       /\ (token_expiry = None /\ token_expiry' # None) =>
             \E resp \in Responses :
                 /\ resp.kind = "ok"
                 /\ resp.expires_in # None
                 /\ SavesResponse(resp)
                 /\ access_token' = Some(resp.access_token)]_vars

\* C29 witness: get_valid_access_token found the access token due for a
\* refresh, the refresh response had no expires_in, and the row now holds
\* the new access token and no expiry.
C29_Witness ==
    /\ gpc = "returned"
    /\ ~gloc.direct
    /\ gloc.sent = 1
    /\ gloc.resp.kind = "ok"
    /\ gloc.resp.expires_in = None
    /\ access_token = Some(gloc.resp.access_token)
    /\ token_expiry = None

\* C30: the step in which a listener's recv_timeout runs out ends the
\* listener and frees the port with the FlowState slot and the google_auth
\* row as they were; a FlowState in the slot is replaced only by the slot
\* write of a start_auth_flow and removed only at the end of a successful
\* exchange.
C30_TimeoutKeepsFlowState ==
    [][/\ \A i \in Flows :
            (lpc[i] = "waiting" /\ lpc'[i] # "waiting" /\ TimedOut(waited)) =>
                /\ lpc'[i] = "timed_out"
                /\ port' = 0
                /\ UNCHANGED <<dbvars, flow_state>>
       /\ (flow_state # None /\ flow_state' # flow_state) =>
            \/ \E i \in Flows : /\ spc[i] = "generated"
                                /\ spc'[i] = "stored"
                                /\ flow_state' # None
            \/ \E i \in Flows : /\ lpc[i] = "saved"
                                /\ lpc'[i] = "responded"
                                /\ flow_state' = None]_vars

\* C30 witness: a token set is stored, the newest flow's listener has timed
\* out without serving a request, and that flow's FlowState is still in the
\* slot.
C30_Witness ==
    /\ latest # 0
    /\ lpc[latest] = "timed_out"
    /\ flow_state = Some([code_verifier |-> latest, state |-> latest])
    /\ since_start = RECV_TIMEOUT
    /\ access_token # None
    /\ refresh_token # None

\* C31: a listener that has handled a request on the callback path and is
\* about to leave its loop has answered that request with the success page
\* or one of the failure pages.
C31_TerminatingCallbackAnswered ==
    \A i \in Flows :
        lpc[i] = "responded" =>
            lloc[i].page \in FailurePages \cup {"success_page"}

\* The step in which cancel_download(id) runs.
CancelStep(id) == cpc = "idle" /\ cpc' = "returned" /\ cancel_call'.id = id

\* C32: cancel_download(id) returns true and sets the flag the registry
\* holds for id exactly when the last of register_download(id) and
\* unregister_download(id) was a register_download; otherwise it returns
\* false and no flag changes.  The flag a register_download returns is new
\* and false, and a cancel_download(id) leaves the flag registered under
\* every other id as it was.
C32_CancelExactlyRegistered ==
    [][/\ \A id \in FileIds :
            CancelStep(id) =>
                /\ cancel_call'.ret = (last_op[id] = "register")
                /\ IF last_op[id] = "register"
                   THEN /\ registry[id] # None
                        /\ flag' = [flag EXCEPT ![Unwrap(registry[id])] = TRUE]
                   ELSE flag' = flag
                /\ \A other \in FileIds \ {id} :
                       registry[other] # None =>
                           flag'[Unwrap(registry[other])] =
                               flag[Unwrap(registry[other])]
       /\ \A d \in Downloads :
            (dpc[d] = "idle" /\ dpc'[d] = "running") =>
                /\ dl_flag'[d] = Len(flag) + 1
                /\ flag'[dl_flag'[d]] = FALSE
                /\ registry'[dl_id'[d]] = Some(dl_flag'[d])
                /\ \A h \in DOMAIN flag : flag'[h] = flag[h]]_vars

\* C32 witness: with two ids registered, cancel_download of the one has
\* returned true with its flag set and the other's flag still false; an
\* earlier download has unregistered.
C32_Witness ==
    /\ cpc = "returned"
    /\ cancel_call.ret
    /\ \E id \in FileIds, other \in FileIds :
          /\ id # other
          /\ cancel_call.id = id
          /\ registry[id] # None
          /\ flag[Unwrap(registry[id])]
          /\ registry[other] # None
          /\ ~flag[Unwrap(registry[other])]
    /\ \E d \in Downloads : dpc[d] = "done"

\* C33: a cancel_download(id) that returns true sets the flag of every
\* download that registered id and has not yet unregistered.
C33_RunningDownloadCancellable ==
    [][\A id \in FileIds :
          (CancelStep(id) /\ cancel_call'.ret) =>
              \A d \in Downloads :
                  (dpc[d] = "running" /\ dl_id[d] = id) => flag'[dl_flag[d]]]_vars

=============================================================================
